---------------------------- MODULE Spec2Model ----------------------------
(***************************************************************************)
(* Route Gate of alvaromanoso.dev: the Next.js middleware of               *)
(* src/middleware.ts and the matcher configuration that selects the        *)
(* requests it is invoked on.                                              *)
(*                                                                         *)
(* A string is a sequence of letters.  The letter "/" is the path          *)
(* separator; every other letter stands for a non-empty run of characters  *)
(* without "/" (the name of a path segment).  indexOf("/", 1) and          *)
(* substring(0, n) only ever cut a path at a "/", so positions counted in  *)
(* letters select the same prefixes as positions counted in characters.    *)
(***************************************************************************)
EXTENDS Integers, Sequences, FiniteSets, TLC

VARIABLES routes, pathname, origin, via, invoked, pc, basePathname, res, last,
          calls

vars == <<routes, pathname, origin, via, invoked, pc, basePathname, res, last,
          calls>>

-----------------------------------------------------------------------------
(* Bounds of the model *)

\* longest request path, in letters
MaxLen == 6
\* largest number of keys of a registry
MaxKeys == 2
\* invocations the framework runs at the same time
NumCalls == 2

-----------------------------------------------------------------------------
(* Strings *)

Slash == "/"

\* "p" is any segment that names no route ("extra", "my-project", ...)
Alphabet == {"/", "about", "work", "blog", "gallery", "p"}

\* letters of the segments after the first one
TailAlphabet == {"/", "p"}

Strings(A, n) == UNION {[1..k -> A] : k \in 0..n}

\* request paths: any first segment, with or without its leading slash,
\* followed by any arrangement of separators and nested segments
Paths ==
    Strings(Alphabet, 2) \cup
    {h \o t : h \in [1..2 -> Alphabet], t \in Strings(TailAlphabet, MaxLen - 2)}

\* paths every evaluation of the determinism check is drawn from
ProbePaths ==
    { <<>>, <<"/">>, <<"p">>, <<"/", "gallery">>, <<"/", "gallery", "/", "p">>,
      <<"/", "work", "/", "p">>, <<"/", "/", "p">>, <<"/", "about">> }

\* paths of the requests that are served at the same time
ConcPaths ==
    { <<"/">>, <<"/", "about">>, <<"/", "gallery">>,
      <<"/", "gallery", "/", "p">>, <<"/", "work", "/", "p">> }

Origins == {"http://localhost:3000", "https://alvaromanoso.dev"}

NotFoundPath == <<"/", "not-found">>

Min(S) == CHOOSE x \in S : \A y \in S : x <= y

\* variant: the search ignores its start position
IndexOfFromZero(s, ch, from) ==
    LET hits == {k \in 0..(Len(s) - 1) : s[k + 1] = ch}
    IN  IF hits = {} THEN -1 ELSE Min(hits)

\* String.prototype.indexOf(ch, from): 0-based position of the first ch at
\* or after from, -1 when there is none
IndexOf(s, ch, from) ==
    LET start == IF from < 0 THEN 0 ELSE from
        hits  == {k \in start..(Len(s) - 1) : s[k + 1] = ch}
    IN  IF hits = {} THEN -1 ELSE Min(hits)

\* String.prototype.substring(start, end): both arguments are clamped to
\* 0..length and swapped when start > end
Substring(s, start, end) ==
    LET clamp(i) == IF i < 0 THEN 0 ELSE IF i > Len(s) THEN Len(s) ELSE i
        a  == clamp(start)
        b  == clamp(end)
        lo == IF a <= b THEN a ELSE b
        hi == IF a <= b THEN b ELSE a
    IN  SubSeq(s, lo + 1, hi)

-----------------------------------------------------------------------------
(* Route Registry *)

RouteKeys ==
    { <<>>, <<"/">>, <<"/", "gallery">>, <<"/", "work">>,
      <<"/", "work", "/", "p">> }

Registries ==
    UNION {[K -> BOOLEAN] : K \in {S \in SUBSET RouteKeys : Cardinality(S) <= MaxKeys}}

\* pathname in routes && !routes[pathname]
Disabled(r, k) == k \in DOMAIN r /\ ~r[k]

-----------------------------------------------------------------------------
(* Directives *)

NoUrl == [origin |-> "", path |-> <<>>]

\* NextResponse.next()
PassThrough == [kind |-> "next", url |-> NoUrl]

\* variant: the target is built on a fixed base instead of req.url
RewriteToFixedOrigin(o) ==
    [kind |-> "rewrite", url |-> [origin |-> "http://localhost:3000", path |-> NotFoundPath]]

\* NextResponse.rewrite(new URL("/not-found", req.url))
RewriteTo(o) == [kind |-> "rewrite", url |-> [origin |-> o, path |-> NotFoundPath]]

\* the request was not intercepted: the framework handles it as usual
NormalHandling == [kind |-> "next", url |-> NoUrl]

NoRes == [kind |-> "none", url |-> NoUrl]

Unset == <<"unset">>

NoLast == [pathname |-> Unset, origin |-> "", res |-> NoRes]

Calls == 1..NumCalls

\* an invocation slot nothing runs in
IdleCall ==
    [pc |-> "idle", pathname |-> <<>>, origin |-> "", basePathname |-> Unset,
     res |-> NoRes]

-----------------------------------------------------------------------------
(* config.matcher *)

\* a static pattern matches exactly its own path
MatchesExact(pattern, p) == p = pattern

\* prefix/:path* matches the prefix followed by zero or more non-empty
\* segments, each introduced by "/"
MatchesNested(prefix, p) ==
    /\ Len(p) >= Len(prefix)
    /\ SubSeq(p, 1, Len(prefix)) = prefix
    /\ LET rest == SubSeq(p, Len(prefix) + 1, Len(p))
       IN  /\ Len(rest) % 2 = 0
           /\ \A i \in 1..Len(rest) : (rest[i] = Slash) <=> (i % 2 = 1)

\* variant: "/gallery" written as "/gallery/:path*"
MatcherGalleryNested(p) ==
    \/ MatchesExact(<<"/", "about">>, p)
    \/ MatchesNested(<<"/", "work">>, p)
    \/ MatchesNested(<<"/", "blog">>, p)
    \/ MatchesNested(<<"/", "gallery">>, p)

Matcher(p) ==
    \/ MatchesExact(<<"/", "about">>, p)
    \/ MatchesNested(<<"/", "work">>, p)
    \/ MatchesNested(<<"/", "blog">>, p)
    \/ MatchesExact(<<"/", "gallery">>, p)

-----------------------------------------------------------------------------
(* middleware *)

\* variant: the cut is one position too far and keeps the second "/"
BasePathnameOffByOne(p) == Substring(p, 0, IndexOf(p, Slash, 1) + 1)

\* pathname.substring(0, pathname.indexOf("/", 1))
BasePathname(p) == Substring(p, 0, IndexOf(p, Slash, 1))

Init ==
    /\ routes \in Registries
    /\ pathname = <<>>
    /\ origin = "http://localhost:3000"
    /\ via = "none"
    /\ invoked = FALSE
    /\ pc = "idle"
    /\ basePathname = Unset
    /\ res = NoRes
    /\ last = NoLast
    /\ calls = [i \in Calls |-> IdleCall]

\* variant: the middleware runs on every request, matcher or not
RequestUnfiltered(P) ==
    /\ pc = "idle"
    /\ \E p \in P, o \in Origins :
          /\ pathname' = p
          /\ origin' = o
    /\ via' = "framework"
    /\ invoked' = TRUE
    /\ pc' = "step1"
    /\ basePathname' = Unset
    /\ res' = NoRes
    /\ UNCHANGED <<routes, last, calls>>

\* the framework receives a request and runs the middleware on it only when
\* its path matches config.matcher
Request(P) ==
    /\ pc = "idle"
    /\ \E p \in P, o \in Origins :
          /\ pathname' = p
          /\ origin' = o
          /\ via' = "framework"
          /\ basePathname' = Unset
          /\ IF Matcher(p)
             THEN /\ invoked' = TRUE
                  /\ pc' = "step1"
                  /\ res' = NoRes
             ELSE /\ invoked' = FALSE
                  /\ pc' = "done"
                  /\ res' = NormalHandling
    /\ UNCHANGED <<routes, last, calls>>

\* middleware(req) called on a request of any path
Invoke(P) ==
    /\ pc = "idle"
    /\ \E p \in P, o \in Origins :
          /\ pathname' = p
          /\ origin' = o
    /\ via' = "direct"
    /\ invoked' = TRUE
    /\ pc' = "step1"
    /\ basePathname' = Unset
    /\ res' = NoRes
    /\ UNCHANGED <<routes, last, calls>>

\* variant: a full path that is a key with a true flag is let through at
\* once, without the check of its base path
FullPathCheckEarlyAllow ==
    /\ pc = "step1"
    /\ IF pathname \in DOMAIN routes
       THEN /\ res' = IF routes[pathname] THEN PassThrough ELSE RewriteTo(origin)
            /\ pc' = "done"
       ELSE /\ res' = res
            /\ pc' = "step2"
    /\ UNCHANGED <<routes, pathname, origin, via, invoked, basePathname, last, calls>>

\* variant: the full path is never looked up, only the base path
FullPathCheckSkipped ==
    /\ pc = "step1"
    /\ res' = res
    /\ pc' = "step2"
    /\ UNCHANGED <<routes, pathname, origin, via, invoked, basePathname, last, calls>>

\* the check of the full path
FullPathCheck ==
    /\ pc = "step1"
    /\ IF Disabled(routes, pathname)
       THEN /\ res' = RewriteTo(origin)
            /\ pc' = "done"
       ELSE /\ res' = res
            /\ pc' = "step2"
    /\ UNCHANGED <<routes, pathname, origin, via, invoked, basePathname, last, calls>>

\* variant: when there is no second "/" the base path is either the empty
\* string or the whole path, from one call to the next
BasePathCheckEither ==
    /\ pc = "step2"
    /\ basePathname' \in {BasePathname(pathname),
                          IF IndexOf(pathname, Slash, 1) = -1
                          THEN pathname ELSE BasePathname(pathname)}
    /\ IF Disabled(routes, basePathname')
       THEN res' = RewriteTo(origin)
       ELSE res' = PassThrough
    /\ pc' = "done"
    /\ UNCHANGED <<routes, pathname, origin, via, invoked, last, calls>>

\* variant: a path that passes is written into the registry as enabled, so
\* that the next request for it is answered by the first check
BasePathCheckMemo ==
    /\ pc = "step2"
    /\ basePathname' = BasePathname(pathname)
    /\ IF Disabled(routes, basePathname')
       THEN /\ res' = RewriteTo(origin)
            /\ routes' = routes
       ELSE /\ res' = PassThrough
            /\ routes' = [k \in DOMAIN routes \cup {pathname} |->
                             IF k = pathname THEN TRUE ELSE routes[k]]
    /\ pc' = "done"
    /\ UNCHANGED <<pathname, origin, via, invoked, last, calls>>

\* the check of the base path, and the final NextResponse.next()
BasePathCheck ==
    /\ pc = "step2"
    /\ basePathname' = BasePathname(pathname)
    /\ IF Disabled(routes, basePathname')
       THEN res' = RewriteTo(origin)
       ELSE res' = PassThrough
    /\ pc' = "done"
    /\ UNCHANGED <<routes, pathname, origin, via, invoked, last, calls>>

\* the directive is handed back and the invocation's locals are gone
Respond ==
    /\ pc = "done"
    /\ pathname' = <<>>
    /\ origin' = "http://localhost:3000"
    /\ via' = "none"
    /\ invoked' = FALSE
    /\ pc' = "idle"
    /\ basePathname' = Unset
    /\ res' = NoRes
    /\ UNCHANGED <<routes, last, calls>>

\* as Respond, and an observer keeps the directive of the evaluation
RespondRemember ==
    /\ pc = "done"
    /\ invoked
    /\ last' = [pathname |-> pathname, origin |-> origin, res |-> res]
    /\ pathname' = <<>>
    /\ origin' = "http://localhost:3000"
    /\ via' = "none"
    /\ invoked' = FALSE
    /\ pc' = "idle"
    /\ basePathname' = Unset
    /\ res' = NoRes
    /\ UNCHANGED <<routes, calls>>

Next ==
    \/ Request(Paths)
    \/ Invoke(Paths)
    \/ FullPathCheck
    \/ BasePathCheck
    \/ Respond

Spec == Init /\ [][Next]_vars

\* repeated evaluations of a few paths, one of them remembered
NextDet ==
    \/ Request(ProbePaths)
    \/ Invoke(ProbePaths)
    \/ FullPathCheck
    \/ BasePathCheck
    \/ Respond
    \/ RespondRemember

SpecDet == Init /\ [][NextDet]_vars

-----------------------------------------------------------------------------
(* Concurrent invocations *)

\* middleware(req) as one evaluation: the directive of a request of path p
\* and origin o under registry r
Middleware(r, p, o) ==
    IF Disabled(r, p) THEN RewriteTo(o)
    ELSE IF Disabled(r, BasePathname(p)) THEN RewriteTo(o)
    ELSE PassThrough

CallVarsUnchanged ==
    UNCHANGED <<routes, pathname, origin, via, invoked, pc, basePathname, res, last>>

\* the framework starts invocation i on a request while others are running
CallInvoke(i) ==
    /\ calls[i].pc = "idle"
    /\ \E p \in ConcPaths, o \in Origins :
          calls' = [calls EXCEPT ![i] =
                      [pc |-> "step1", pathname |-> p, origin |-> o,
                       basePathname |-> Unset, res |-> NoRes]]
    /\ CallVarsUnchanged

\* the check of the full path, in invocation i
CallFullPathCheck(i) ==
    /\ calls[i].pc = "step1"
    /\ calls' = [calls EXCEPT ![i] =
                   IF Disabled(routes, calls[i].pathname)
                   THEN [@ EXCEPT !.res = RewriteTo(calls[i].origin), !.pc = "done"]
                   ELSE [@ EXCEPT !.pc = "step2"]]
    /\ CallVarsUnchanged

\* variant: pathname is a variable of the module, shared by the invocations,
\* and the second check reads whatever an invocation in flight stored in it
CallBasePathCheckRacy(i) ==
    /\ calls[i].pc = "step2"
    /\ \E j \in Calls :
          /\ calls[j].pc # "idle"
          /\ LET base == BasePathname(calls[j].pathname)
             IN  calls' = [calls EXCEPT ![i] =
                             [@ EXCEPT !.basePathname = base,
                                       !.res = IF Disabled(routes, base)
                                               THEN RewriteTo(calls[i].origin)
                                               ELSE PassThrough,
                                       !.pc = "done"]]
    /\ CallVarsUnchanged

\* the check of the base path and the final NextResponse.next(), in
\* invocation i
CallBasePathCheck(i) ==
    /\ calls[i].pc = "step2"
    /\ LET base == BasePathname(calls[i].pathname)
       IN  calls' = [calls EXCEPT ![i] =
                       [@ EXCEPT !.basePathname = base,
                                 !.res = IF Disabled(routes, base)
                                         THEN RewriteTo(calls[i].origin)
                                         ELSE PassThrough,
                                 !.pc = "done"]]
    /\ CallVarsUnchanged

\* invocation i hands its directive back
CallRespond(i) ==
    /\ calls[i].pc = "done"
    /\ calls' = [calls EXCEPT ![i] = IdleCall]
    /\ CallVarsUnchanged

NextConc ==
    \/ \E i \in Calls : CallInvoke(i)
    \/ \E i \in Calls : CallFullPathCheck(i)
    \/ \E i \in Calls : CallBasePathCheck(i)
    \/ \E i \in Calls : CallRespond(i)

SpecConc == Init /\ [][NextConc]_vars

-----------------------------------------------------------------------------
(* Vocabulary of the properties *)

\* the middleware was invoked on the current request and has returned
Returned == pc = "done" /\ invoked

\* k is a key of the registry and its flag is false
KeyDisabled(k) == k \in DOMAIN routes /\ routes[k] = FALSE

IsPrefix(k, p) == Len(k) <= Len(p) /\ SubSeq(p, 1, Len(k)) = k

\* p has a "/" at index 1 or later
HasSecondSlash(p) == \E i \in 2..Len(p) : p[i] = Slash

\* the part of p before its "/" at index 1 or later
BeforeSecondSlash(p) ==
    LET i == CHOOSE j \in 2..Len(p) :
                 p[j] = Slash /\ \A m \in 2..(j - 1) : p[m] # Slash
    IN  SubSeq(p, 1, i - 1)

\* the base segment of the glossary: the first segment with its leading
\* slash, the whole path when nothing follows it
BaseSegment(p) == IF HasSecondSlash(p) THEN BeforeSecondSlash(p) ELSE p

\* k is a first path segment with its leading slash
IsBaseKey(k) == Len(k) >= 1 /\ k[1] = Slash /\ ~HasSecondSlash(k)

\* empty, without a leading slash, or with two slashes in a row
Malformed(p) ==
    \/ p = <<>>
    \/ p[1] # Slash
    \/ \E i \in 1..(Len(p) - 1) : p[i] = Slash /\ p[i + 1] = Slash

\* the registry of the example scenarios: "/gallery" disabled, every other
\* key absent or true
GalleryOnly ==
    /\ KeyDisabled(<<"/", "gallery">>)
    /\ \A k \in DOMAIN routes : k # <<"/", "gallery">> => routes[k]

-----------------------------------------------------------------------------
(* Properties *)

\* C1: the middleware invoked on a path that is itself a key with flag false
\* returns the rewrite directive, whatever the flag of the path's base
\* segment (true, false or absent).
C1_DisabledFullPathRewrites ==
    (Returned /\ KeyDisabled(pathname)) => res.kind = "rewrite"

\* a disabled nested key under an enabled base key was rewritten
C1_Witness ==
    /\ Returned
    /\ pathname = <<"/", "work", "/", "p">>
    /\ KeyDisabled(pathname)
    /\ <<"/", "work">> \in DOMAIN routes
    /\ routes[<<"/", "work">>]
    /\ res.kind = "rewrite"

\* C2: for a key k with flag false that is a first segment with its leading
\* slash, the middleware invoked on k + "/" + rest returns the rewrite
\* directive, for rest empty, one segment or several segments.
C2_DisabledBaseRewritesNested ==
    Returned =>
        \A k \in DOMAIN routes :
            (KeyDisabled(k) /\ IsBaseKey(k) /\ IsPrefix(k \o <<Slash>>, pathname))
                => res.kind = "rewrite"

\* a path two segments below a disabled base key was rewritten
C2_Witness ==
    /\ Returned
    /\ pathname = <<"/", "gallery", "/", "p", "/", "p">>
    /\ KeyDisabled(<<"/", "gallery">>)
    /\ basePathname = <<"/", "gallery">>
    /\ res.kind = "rewrite"

\* C3: when neither the full path nor its base segment is a key of the
\* registry, the middleware returns pass_through.
C3_NoMatchPassesThrough ==
    (Returned /\ pathname \notin DOMAIN routes
              /\ BaseSegment(pathname) \notin DOMAIN routes)
        => res.kind = "next"

\* C4: when the full path is absent from the registry or present with flag
\* true, the middleware returns rewrite exactly when the base segment of the
\* path is a key with flag false, and pass_through otherwise.
C4_EnabledFullPathFollowsBase ==
    (Returned /\ ~KeyDisabled(pathname)) =>
        /\ KeyDisabled(BaseSegment(pathname)) => res.kind = "rewrite"
        /\ ~KeyDisabled(BaseSegment(pathname)) => res.kind = "next"

\* C5 as stated: through the matcher and the middleware, with only
\* "/gallery" disabled, /gallery/extra and /gallery end in a rewrite, /about
\* and /work/my-project in pass_through.
C5_EndToEndAsStated ==
    (pc = "done" /\ via = "framework" /\ GalleryOnly) =>
        /\ pathname = <<"/", "gallery", "/", "p">> => res.kind = "rewrite"
        /\ pathname = <<"/", "gallery">> => res.kind = "rewrite"
        /\ pathname = <<"/", "about">> => res.kind = "next"
        /\ pathname = <<"/", "work", "/", "p">> => res.kind = "next"

\* C5: with only "/gallery" disabled, a request for /gallery ends in a
\* rewrite to the not-found target; a request for /gallery/extra matches no
\* pattern of the matcher, so the middleware is not invoked and the request
\* passes through, while the middleware invoked directly on /gallery/extra
\* returns rewrite; /about and /work/my-project end in pass_through.
C5_EndToEnd ==
    (pc = "done" /\ GalleryOnly) =>
        /\ (via = "framework" /\ pathname = <<"/", "gallery", "/", "p">>)
              => (~invoked /\ res.kind = "next")
        /\ (via = "direct" /\ pathname = <<"/", "gallery", "/", "p">>)
              => res = RewriteTo(origin)
        /\ (via = "framework" /\ pathname = <<"/", "gallery">>)
              => (invoked /\ res = RewriteTo(origin))
        /\ (via = "framework" /\ pathname = <<"/", "about">>)
              => res.kind = "next"
        /\ (via = "framework" /\ pathname = <<"/", "work", "/", "p">>)
              => res.kind = "next"

\* the framework handled /gallery/extra without the middleware
C5_Witness ==
    /\ pc = "done"
    /\ via = "framework"
    /\ GalleryOnly
    /\ pathname = <<"/", "gallery", "/", "p">>
    /\ ~invoked
    /\ res.kind = "next"

\* C6: a request whose path matches no pattern of the matcher never has the
\* middleware invoked on it and is never rewritten, even when its full path
\* or its base segment is a disabled key.
C6_UnmatchedNeverGated ==
    (via = "framework" /\ ~Matcher(pathname)) =>
        /\ ~invoked
        /\ pc = "done"
        /\ res = NormalHandling

\* a request for "/" went through although "/" is a disabled key
C6_Witness ==
    /\ via = "framework"
    /\ pc = "done"
    /\ pathname = <<"/">>
    /\ KeyDisabled(<<"/">>)
    /\ ~invoked
    /\ res.kind = "next"

\* C7: an invocation returns one directive, pass_through or rewrite, and
\* none before it returns; a rewrite targets the origin of the request and
\* the path "/not-found", whichever check matched.
C7_DirectiveShape ==
    /\ (invoked /\ pc \in {"step1", "step2"}) => res = NoRes
    /\ Returned =>
          /\ res.kind \in {"next", "rewrite"}
          /\ res.kind = "next" => res.url = NoUrl
          /\ res.kind = "rewrite" =>
                /\ res.url.origin = origin
                /\ res.url.path = <<"/", "not-found">>

\* the base-path check rewrote a request of the second origin
C7_Witness ==
    /\ Returned
    /\ origin = "https://alvaromanoso.dev"
    /\ basePathname # Unset
    /\ res.kind = "rewrite"
    /\ res.url.origin = "https://alvaromanoso.dev"

\* C8: an evaluation of a (path, origin) pair returns the directive an
\* earlier evaluation of the same pair returned, whatever was evaluated in
\* between.
C8_Deterministic ==
    (Returned /\ last.pathname = pathname /\ last.origin = origin)
        => res = last.res

\* a path was rewritten a second time
C8_Witness ==
    /\ Returned
    /\ last.pathname = pathname
    /\ last.origin = origin
    /\ pathname = <<"/", "gallery", "/", "p">>
    /\ res.kind = "rewrite"
    /\ last.res.kind = "rewrite"

\* C9 as stated: every evaluation completes with a directive, and an empty
\* or malformed path yields pass_through.
C9_MalformedAsStated ==
    /\ (invoked /\ pc \in {"step1", "step2"}) => ENABLED (FullPathCheck \/ BasePathCheck)
    /\ Returned => res.kind \in {"next", "rewrite"}
    /\ (Returned /\ Malformed(pathname)) => res.kind = "next"

\* C9: every evaluation completes with a directive; an empty or malformed
\* path yields pass_through unless the path itself, or the part of it before
\* its "/" at index 1 or later (the empty string when there is none), is a
\* key with flag false, and then it yields rewrite.
C9_TotalAndMalformed ==
    /\ (invoked /\ pc \in {"step1", "step2"}) => ENABLED (FullPathCheck \/ BasePathCheck)
    /\ Returned => res.kind \in {"next", "rewrite"}
    /\ (Returned /\ Malformed(pathname)) =>
          LET cut == IF HasSecondSlash(pathname)
                     THEN BeforeSecondSlash(pathname) ELSE <<>>
          IN  res.kind = (IF KeyDisabled(pathname) \/ KeyDisabled(cut)
                          THEN "rewrite" ELSE "next")

\* a path with two slashes in a row was rewritten for its base path "/"
C9_Witness ==
    /\ Returned
    /\ pathname = <<"/", "/", "p">>
    /\ KeyDisabled(<<"/">>)
    /\ res.kind = "rewrite"

\* C10: for a path without a second "/", the base path computed by the
\* second check is the whole path, so that the second check looks up the
\* key of the first.
C10_BaseIsWholePath ==
    (Returned /\ basePathname # Unset /\ ~HasSecondSlash(pathname))
        => basePathname = pathname

\* C11: for a path without a second "/", the second check is a no-op: the
\* directive is the one the check of the full path decides alone, rewrite
\* when the full path is a key with flag false and pass_through otherwise,
\* also for a registry that has the empty string among its keys.
C11_SecondCheckIsNoOp ==
    (Returned /\ ~HasSecondSlash(pathname)) =>
        res.kind = (IF KeyDisabled(pathname) THEN "rewrite" ELSE "next")

\* C12: no step changes the registry, so after any sequence of requests it
\* is the registry of the start; a step of the middleware changes nothing
\* but its own position, its local basePathname and the directive it returns.
C12_RegistryReadOnly ==
    [][/\ routes' = routes
       /\ pc \in {"step1", "step2"} =>
             /\ pathname' = pathname
             /\ origin' = origin
             /\ via' = via
             /\ invoked' = invoked
             /\ last' = last
             /\ calls' = calls]_vars

\* the second check rewrote a request under a registry of two keys
C12_Witness ==
    /\ Returned
    /\ Cardinality(DOMAIN routes) = 2
    /\ basePathname = <<"/", "work">>
    /\ KeyDisabled(<<"/", "work">>)
    /\ res.kind = "rewrite"

\* C13: under every interleaving of the steps of concurrent invocations, an
\* invocation returns the directive of an evaluation of its own path and
\* origin alone, and invocations of the same path and origin agree.
C13_InterleavingIndependent ==
    \A i \in Calls :
        calls[i].pc = "done" =>
            /\ calls[i].res = Middleware(routes, calls[i].pathname, calls[i].origin)
            /\ \A j \in Calls :
                  (/\ calls[j].pc = "done"
                   /\ calls[j].pathname = calls[i].pathname
                   /\ calls[j].origin = calls[i].origin)
                      => calls[j].res = calls[i].res

\* an invocation passed its request through while another one, which was
\* rewritten for its base path, has not handed its directive back yet
C13_Witness ==
    \E i, j \in Calls :
        /\ i # j
        /\ calls[i].pc = "done"
        /\ calls[i].basePathname = <<"/", "gallery">>
        /\ calls[i].res.kind = "rewrite"
        /\ calls[j].pc = "done"
        /\ calls[j].pathname = <<"/", "about">>
        /\ calls[j].res.kind = "next"

\* the registry without its keys of flag true
WithoutEnabled(r) == [k \in {x \in DOMAIN r : ~r[x]} |-> FALSE]

\* C14: the directive depends only on the keys whose flag is false: the
\* middleware returns under the registry what an evaluation returns under
\* the registry without its keys of flag true, also for a full path with a
\* true flag below a base segment with a false one.
C14_EnabledKeyIsAbsentKey ==
    Returned => res = Middleware(WithoutEnabled(routes), pathname, origin)

\* an enabled nested key below a disabled base key was rewritten
C14_Witness ==
    /\ Returned
    /\ pathname = <<"/", "work", "/", "p">>
    /\ pathname \in DOMAIN routes
    /\ routes[pathname]
    /\ KeyDisabled(<<"/", "work">>)
    /\ WithoutEnabled(routes) # routes
    /\ res.kind = "rewrite"

=============================================================================
